---- MODULE Spec2Model ----
(***************************************************************************)
(* scripts/generate_metadata.py: one batch run scans the michigan-daily    *)
(* directory, loads metadata.json, rebuilds the `photos` mapping and       *)
(* writes it back.  The state is the file system the script works on (the  *)
(* directory, its entries, the metadata file) and what the last run left   *)
(* behind (exit status, standard output, the locals of generate_metadata). *)
(***************************************************************************)
EXTENDS Integers, Sequences, FiniteSets, TLC

VARIABLES
    dirKind,          \* MICHIGAN_DAILY_DIR: "absent", "dir" or "file" (a non-directory)
    entries,          \* the directory's entries: name -> "none" | "file" | "dir"
    metaFile,         \* METADATA_FILE: [exists, readable, writable, decodable, text]
    exitCode,         \* exit status of the last run; -1 when no run has ended since
                      \* the file system last changed
    error,            \* the exception that ended the last run, "" when none
    stdout,           \* the lines the last run printed
    images,           \* generate_metadata's locals at the end of the last run
    existing_photos,
    new_photos,
    added,
    preserved,
    removed,
    scanned,          \* history: `entries` as the last run found them
    loadedFrom,       \* history: `metaFile` as the last run found it
    rerun             \* history: the last run directly followed a completed run

vars == <<dirKind, entries, metaFile, exitCode, error, stdout, images,
          existing_photos, new_photos, added, preserved, removed,
          scanned, loadedFrom, rerun>>

(***************************************************************************)
(* Bound of the model.                                                     *)
(***************************************************************************)
MaxOld == 2           \* entries of the `photos` mapping of an initial metadata file

(***************************************************************************)
(* Strings.  A string is a TLA+ string; Spell gives its characters and Ord *)
(* a character's code point, so that suffix, lower(), sorted() and the     *)
(* substring test are computed on characters.                              *)
(***************************************************************************)
Names == {"a.jpg", "B.PNG", ".jpg"}
MetaName == "metadata.json"

Spell(s) ==
    CASE s = "a.jpg"         -> <<"a", ".", "j", "p", "g">>
      [] s = "B.PNG"         -> <<"B", ".", "P", "N", "G">>
      [] s = ".jpg"          -> <<".", "j", "p", "g">>
      [] s = "metadata.json" -> <<"m", "e", "t", "a", "d", "a", "t", "a", ".", "j", "s", "o", "n">>
      [] s = "za.jpg"        -> <<"z", "a", ".", "j", "p", "g">>
      [] s = "xy"            -> <<"x", "y">>
      [] OTHER               -> <<>>

Alphabet == {".", "B", "G", "N", "P", "a", "d", "e", "g", "j", "m", "n", "o",
             "p", "s", "t", "w", "b", "v", "x", "y", "z"}

Ord(c) ==
    CASE c = "." -> 46  [] c = "B" -> 66  [] c = "G" -> 71  [] c = "N" -> 78
      [] c = "P" -> 80  [] c = "a" -> 97  [] c = "b" -> 98  [] c = "d" -> 100
      [] c = "e" -> 101 [] c = "g" -> 103 [] c = "j" -> 106 [] c = "m" -> 109
      [] c = "n" -> 110 [] c = "o" -> 111 [] c = "p" -> 112 [] c = "s" -> 115
      [] c = "t" -> 116 [] c = "v" -> 118 [] c = "w" -> 119 [] c = "x" -> 120
      [] c = "y" -> 121 [] c = "z" -> 122

\* str.lower() on one character: A..Z move up by 32 code points.
LowerChar(c) ==
    IF Ord(c) >= 65 /\ Ord(c) <= 90
    THEN CHOOSE d \in Alphabet : Ord(d) = Ord(c) + 32
    ELSE c

Lower(w) == [i \in 1..Len(w) |-> LowerChar(w[i])]

\* str.rfind("."), 1-based; 0 when there is no dot.
RFindDot(w) ==
    LET dots == {i \in 1..Len(w) : w[i] = "."}
    IN  IF dots = {} THEN 0 ELSE CHOOSE i \in dots : \A j \in dots : j <= i

\* pathlib's PurePath.suffix: the text from the last dot on, provided the dot
\* is neither the first nor the last character of the name.
Suffix(w) ==
    LET i == RFindDot(w)
    IN  IF 1 < i /\ i < Len(w) THEN SubSeq(w, i, Len(w)) ELSE <<>>

\* Python's str ordering: by code point, a proper prefix first.
RECURSIVE SeqLess(_, _)
SeqLess(u, w) ==
    IF u = <<>> THEN w # <<>>
    ELSE IF w = <<>> THEN FALSE
    ELSE IF Ord(Head(u)) # Ord(Head(w)) THEN Ord(Head(u)) < Ord(Head(w))
    ELSE SeqLess(Tail(u), Tail(w))

StrLess(s, t) == SeqLess(Spell(s), Spell(t))

\* sorted(): ascending by StrLess.
RECURSIVE Sorted(_)
Sorted(S) ==
    IF S = {} THEN <<>>
    ELSE LET m == CHOOSE x \in S : \A y \in S \ {x} : StrLess(x, y)
         IN  <<m>> \o Sorted(S \ {m})

\* `needle in haystack` on two str values: the substring test.
IsSubstring(needle, hay) ==
    \E i \in 0..(Len(hay) - Len(needle)) :
        SubSeq(hay, i + 1, i + Len(needle)) = needle

Range(q) == {q[i] : i \in 1..Len(q)}

(***************************************************************************)
(* JSON values as json.load builds them: str, number, null, list, and dict *)
(* (an insertion-ordered sequence of key/value members with unique keys).  *)
(***************************************************************************)
JStr(s)  == [t |-> "str",  s |-> s,  m |-> <<>>]
JNum(s)  == [t |-> "num",  s |-> s,  m |-> <<>>]
JNull    == [t |-> "null", s |-> "", m |-> <<>>]
JArr(es) == [t |-> "arr",  s |-> "", m |-> es]
JObj(ms) == [t |-> "obj",  s |-> "", m |-> ms]
Member(k, v) == [k |-> k, v |-> v]

Keys(d) == [i \in 1..Len(d.m) |-> d.m[i].k]
KeySet(d) == {d.m[i].k : i \in 1..Len(d.m)}
HasKey(d, k) == \E i \in 1..Len(d.m) : d.m[i].k = k
DictGet(d, k) == d.m[CHOOSE i \in 1..Len(d.m) : d.m[i].k = k].v

\* d[k] = v on a dict: an existing key keeps its position, a new one goes last.
DictSet(d, k, v) ==
    IF HasKey(d, k)
    THEN JObj([i \in 1..Len(d.m) |-> IF d.m[i].k = k THEN Member(k, v) ELSE d.m[i]])
    ELSE JObj(Append(d.m, Member(k, v)))

(***************************************************************************)
(* The text of the metadata file, as a sequence of JSON tokens.  A "nl"    *)
(* token is a line break followed by n spaces of indentation.              *)
(***************************************************************************)
Tok(p)  == [p |-> p,     s |-> "", n |-> 0]
TStr(s) == [p |-> "str", s |-> s,  n |-> 0]
TNum(s) == [p |-> "num", s |-> s,  n |-> 0]
TNl(n)  == [p |-> "nl",  s |-> "", n |-> n]

Indent == 2

\* json.dump(output, f, indent=2, ensure_ascii=False)
RECURSIVE Dump(_, _), DumpItems(_, _, _, _)
Dump(v, level) ==
    CASE v.t = "str"  -> <<TStr(v.s)>>
      [] v.t = "num"  -> <<TNum(v.s)>>
      [] v.t = "null" -> <<Tok("null")>>
      [] v.t = "arr"  ->
            IF v.m = <<>> THEN <<Tok("["), Tok("]")>>
            ELSE <<Tok("[")>> \o DumpItems(v.m, 1, level + 1, FALSE)
                 \o <<TNl(Indent * level), Tok("]")>>
      [] v.t = "obj"  ->
            IF v.m = <<>> THEN <<Tok("{"), Tok("}")>>
            ELSE <<Tok("{")>> \o DumpItems(v.m, 1, level + 1, TRUE)
                 \o <<TNl(Indent * level), Tok("}")>>

DumpItems(items, i, level, keyed) ==
    IF i > Len(items) THEN <<>>
    ELSE (IF i > 1 THEN <<Tok(",")>> ELSE <<>>)
         \o <<TNl(Indent * level)>>
         \o (IF keyed
             THEN <<TStr(items[i].k), Tok(":")>> \o Dump(items[i].v, level)
             ELSE Dump(items[i], level))
         \o DumpItems(items, i + 1, level, keyed)

\* json.dump(...) followed by f.write("\n")
Serialize(v) == Dump(v, 0) \o <<TNl(0)>>

\* json.load: the text is read token by token with a stack of the open
\* containers; white space is skipped, a repeated key keeps its first
\* position and takes its last value, and anything but white space after
\* the value is an error (JSONDecodeError).
RECURSIVE SkipWs(_, _)
SkipWs(toks, i) ==
    IF i <= Len(toks) /\ toks[i].p = "nl" THEN SkipWs(toks, i + 1) ELSE i

At(toks, i, p) == i <= Len(toks) /\ toks[i].p = p

\* A parser configuration: st is "value" (a value is expected at i), "after"
\* (v has just been read), "ok" or "fail"; a stack frame is an open dict or
\* list with, for a dict, the key whose value is being read.
Config(st, i, stack, v) == [st |-> st, i |-> i, stack |-> stack, v |-> v]
Frame(acc, key) == [acc |-> acc, key |-> key]
ParseFail == Config("fail", 0, <<>>, JNull)

\* After "{" or ",", at i: a key and a colon open the next member.
OpenMember(toks, i, stack, acc) ==
    LET k == SkipWs(toks, i)
        c == SkipWs(toks, k + 1)
    IN  IF At(toks, k, "str") /\ At(toks, c, ":")
        THEN Config("value", c + 1, Append(stack, Frame(acc, toks[k].s)), JNull)
        ELSE ParseFail

ReadValue(toks, cfg) ==
    LET i == SkipWs(toks, cfg.i)
        j == SkipWs(toks, i + 1)
    IN  IF i > Len(toks) THEN ParseFail
        ELSE CASE toks[i].p = "str"  -> Config("after", i + 1, cfg.stack, JStr(toks[i].s))
               [] toks[i].p = "num"  -> Config("after", i + 1, cfg.stack, JNum(toks[i].s))
               [] toks[i].p = "null" -> Config("after", i + 1, cfg.stack, JNull)
               [] toks[i].p = "{"    ->
                     IF At(toks, j, "}") THEN Config("after", j + 1, cfg.stack, JObj(<<>>))
                     ELSE OpenMember(toks, j, cfg.stack, JObj(<<>>))
               [] toks[i].p = "["    ->
                     IF At(toks, j, "]") THEN Config("after", j + 1, cfg.stack, JArr(<<>>))
                     ELSE Config("value", j, Append(cfg.stack, Frame(JArr(<<>>), "")), JNull)
               [] OTHER -> ParseFail

AfterValue(toks, cfg) ==
    LET e == SkipWs(toks, cfg.i)
    IN  IF cfg.stack = <<>>
        THEN IF e > Len(toks) THEN Config("ok", e, <<>>, cfg.v) ELSE ParseFail
        ELSE LET top == cfg.stack[Len(cfg.stack)]
                 rest == SubSeq(cfg.stack, 1, Len(cfg.stack) - 1)
                 isObj == top.acc.t = "obj"
                 acc == IF isObj THEN DictSet(top.acc, top.key, cfg.v)
                        ELSE JArr(Append(top.acc.m, cfg.v))
             IN  IF At(toks, e, ",")
                 THEN IF isObj THEN OpenMember(toks, e + 1, rest, acc)
                      ELSE Config("value", e + 1, Append(rest, Frame(acc, "")), JNull)
                 ELSE IF At(toks, e, IF isObj THEN "}" ELSE "]")
                 THEN Config("after", e + 1, rest, acc)
                 ELSE ParseFail

RECURSIVE Parse(_, _)
Parse(toks, cfg) ==
    IF cfg.st = "value" THEN Parse(toks, ReadValue(toks, cfg))
    ELSE IF cfg.st = "after" THEN Parse(toks, AfterValue(toks, cfg))
    ELSE cfg

ParseResult(cfg) == [ok |-> cfg.st = "ok", v |-> cfg.v]

JsonLoad(toks) == ParseResult(Parse(toks, Config("value", 1, <<>>, JNull)))

(***************************************************************************)
(* The program.                                                            *)
(***************************************************************************)
IMAGE_EXTENSIONS ==
    { <<".", "j", "p", "g">>, <<".", "j", "p", "e", "g">>, <<".", "p", "n", "g">>,
      <<".", "w", "e", "b", "p">>, <<".", "s", "v", "g">> }

\* directory.iterdir(): the names of all entries, the metadata file among them.
IterDir(ents, file) ==
    {n \in Names : ents[n] # "none"} \cup (IF file.exists THEN {MetaName} ELSE {})

\* Mutant: the extension filter of line 33 is left out.
get_image_files_Unfiltered(ents, file) == Sorted(IterDir(ents, file))

get_image_files(ents, file) ==
    Sorted({n \in IterDir(ents, file) : Lower(Suffix(Spell(n))) \in IMAGE_EXTENSIONS})

DefaultDocument == JObj(<<Member("photos", JObj(<<>>))>>)

\* The outcome of load_existing_metadata: the value returned, whether the
\* warning was printed, and the exception that escaped ("" when none).
LoadResult(v, warned, exc) == [value |-> v, warned |-> warned, exc |-> exc]

\* Mutant: the parsed document is dropped and the default returned.
Loaded_AlwaysFresh(r) == LoadResult(DefaultDocument, TRUE, "")

\* Lines 41-46: json.load's result, or the fallback on JSONDecodeError.
Loaded(r) ==
    IF r.ok THEN LoadResult(r.v, FALSE, "") ELSE LoadResult(DefaultDocument, TRUE, "")

\* Mutant: an I/O error falls back without the warning of line 45.
load_existing_metadata_SilentOnIOError(file) ==
    IF ~file.exists THEN LoadResult(DefaultDocument, FALSE, "")
    ELSE IF ~file.readable THEN LoadResult(DefaultDocument, FALSE, "")
    ELSE IF ~file.decodable THEN LoadResult(JNull, FALSE, "UnicodeDecodeError")
    ELSE Loaded(JsonLoad(file.text))

load_existing_metadata(file) ==
    IF ~file.exists THEN LoadResult(DefaultDocument, FALSE, "")
    ELSE IF ~file.readable THEN LoadResult(DefaultDocument, TRUE, "")
    ELSE IF ~file.decodable THEN LoadResult(JNull, FALSE, "UnicodeDecodeError")
    ELSE Loaded(JsonLoad(file.text))

\* Mutant: the placeholder's description is left empty.
Placeholder_EmptyDescription ==
    JObj(<<Member("description", JStr("")), Member("date", JStr(""))>>)

\* Lines 73-76.
Placeholder ==
    JObj(<<Member("description", JStr("Edit this description")),
           Member("date", JStr(""))>>)

\* `image in existing_photos`, by the type of existing_photos.
PyContains(c, image) ==
    CASE c.t = "obj" -> IF HasKey(c, image) THEN "True" ELSE "False"
      [] c.t = "arr" -> IF JStr(image) \in Range(c.m) THEN "True" ELSE "False"
      [] c.t = "str" -> IF IsSubstring(Spell(image), Spell(c.s)) THEN "True" ELSE "False"
      [] OTHER       -> "TypeError"

\* `for image in existing_photos`: a dict gives its keys, a list its
\* elements (strings, in the inputs of this model), a str its characters.
PyIter(c) ==
    CASE c.t = "obj" -> Keys(c)
      [] c.t = "arr" -> [i \in 1..Len(c.m) |-> c.m[i].s]
      [] c.t = "str" -> Spell(c.s)

Iterable(c) == c.t \in {"obj", "arr", "str"}

\* Lines 66-77: one pass over the sorted images.
LoopState(photos, add, pres, exc) ==
    [photos |-> photos, added |-> add, preserved |-> pres, exc |-> exc]

\* Mutant: a kept image is reset to the placeholder.
Preserve_Resets(st, old, image) ==
    LoopState(DictSet(st.photos, image, Placeholder),
              st.added, Append(st.preserved, image), "")

\* Lines 68-70: new_photos[image] = existing_photos[image], which only a
\* dict supports.
Preserve(st, old, image) ==
    IF old.t # "obj" THEN [st EXCEPT !.exc = "TypeError"]
    ELSE LoopState(DictSet(st.photos, image, DictGet(old, image)),
                   st.added, Append(st.preserved, image), "")

\* Lines 72-77.
AddPlaceholder(st, image) ==
    LoopState(DictSet(st.photos, image, Placeholder),
              Append(st.added, image), st.preserved, "")

LoopStep(st, old, image, has) ==
    IF has = "TypeError" THEN [st EXCEPT !.exc = "TypeError"]
    ELSE IF has = "True" THEN Preserve(st, old, image)
    ELSE AddPlaceholder(st, image)

RECURSIVE BuildLoop(_, _, _, _)
BuildLoop(imgs, i, old, st) ==
    IF i > Len(imgs) \/ st.exc # "" THEN st
    ELSE BuildLoop(imgs, i + 1, old,
                   LoopStep(st, old, imgs[i], PyContains(old, imgs[i])))

\* Mutant: every old key is reported as removed.
TrackRemoved_All(old, imgs) == PyIter(old)

\* Lines 80-82.
TrackRemoved(old, imgs) ==
    SelectSeq(PyIter(old), LAMBDA image : image \notin Range(imgs))

\* open(metadata_file, "w"), json.dump, f.write("\n")
CanWrite(file) == ~file.exists \/ file.writable
Written(file, output) ==
    [exists |-> TRUE,
     readable |-> IF file.exists THEN file.readable ELSE TRUE,
     writable |-> TRUE,
     decodable |-> TRUE,
     text |-> Serialize(output)]

Line(kind, n, names) == [kind |-> kind, n |-> n, names |-> names]

\* Lines 91-101.
Summary(add, pres, rem) ==
    <<Line("updated", 0, <<>>)>>
    \o (IF add # <<>> THEN <<Line("added", Len(add), add)>> ELSE <<>>)
    \o (IF pres # <<>> THEN <<Line("preserved", Len(pres), <<>>)>> ELSE <<>>)
    \o (IF rem # <<>> THEN <<Line("removed", Len(rem), rem)>> ELSE <<>>)

\* What one run leaves behind.
RunResult(code, exc, out, imgs, old, new, add, pres, rem, file) ==
    [exitCode |-> code, error |-> exc, stdout |-> out, images |-> imgs,
     existing_photos |-> old, new_photos |-> new, added |-> add,
     preserved |-> pres, removed |-> rem, file |-> file]

Crash(exc, out, imgs, old, file) ==
    RunResult(1, exc, out, imgs, old, JObj(<<>>), <<>>, <<>>, <<>>, file)

\* Lines 84-101: the write and the summary.
Finish(imgs, out, old, st, rem, file) ==
    IF ~CanWrite(file) THEN Crash("PermissionError", out, imgs, old, file)
    ELSE RunResult(0, "", out \o Summary(st.added, st.preserved, rem),
                   imgs, old, st.photos, st.added, st.preserved, rem,
                   Written(file, JObj(<<Member("photos", st.photos)>>)))

\* Lines 79-82, after the first loop ended in st.
AfterLoop(imgs, out, old, st, file) ==
    IF st.exc # "" THEN Crash(st.exc, out, imgs, old, file)
    ELSE IF ~Iterable(old) THEN Crash("TypeError", out, imgs, old, file)
    ELSE Finish(imgs, out, old, st, TrackRemoved(old, imgs), file)

\* Lines 60-77, with existing_photos in old.
Reconcile(imgs, out, old, file) ==
    AfterLoop(imgs, out, old,
              BuildLoop(imgs, 1, old, LoopState(JObj(<<>>), <<>>, <<>>, "")), file)

\* Lines 57-58, with the outcome of load_existing_metadata in loaded:
\* existing.get("photos", {}).
AfterLoad(imgs, out, loaded, file) ==
    IF loaded.exc # "" THEN Crash(loaded.exc, out, imgs, JNull, file)
    ELSE IF loaded.value.t # "obj" THEN Crash("AttributeError", out, imgs, JNull, file)
    ELSE Reconcile(imgs, out,
                   IF HasKey(loaded.value, "photos")
                   THEN DictGet(loaded.value, "photos") ELSE JObj(<<>>),
                   file)

\* Lines 53-57, with the scan's result in imgs.
AfterScan(imgs, loaded, file) ==
    AfterLoad(imgs,
              <<Line("found", Len(imgs), <<>>)>>
                \o (IF loaded.warned THEN <<Line("warning", 0, <<>>)>> ELSE <<>>),
              loaded, file)

generate_metadata(kind, ents, file) ==
    IF kind # "dir" THEN Crash("NotADirectoryError", <<>>, <<>>, JNull, file)
    ELSE AfterScan(get_image_files(ents, file), load_existing_metadata(file), file)

\* Lines 104-109.
main(kind, ents, file) ==
    IF kind = "absent"
    THEN RunResult(1, "", <<Line("error", 0, <<>>)>>, <<>>, JNull, JObj(<<>>),
                   <<>>, <<>>, <<>>, file)
    ELSE generate_metadata(kind, ents, file)

(***************************************************************************)
(* The file system the script can be started on.                           *)
(***************************************************************************)
Absent ==
    [exists |-> FALSE, readable |-> FALSE, writable |-> FALSE,
     decodable |-> FALSE, text |-> <<>>]
TextFile(text) ==
    [exists |-> TRUE, readable |-> TRUE, writable |-> TRUE,
     decodable |-> TRUE, text |-> text]

Edited == JObj(<<Member("description", JStr("X")), Member("date", JStr("2020"))>>)
InitValues == {Edited, JStr("legacy")}

\* `photos` mappings of at most MaxOld entries, keys in any order.
InitMappings ==
    UNION { { JObj([i \in 1..n |-> Member(ks[i], vs[i])]) :
                ks \in {q \in [1..n -> Names] : \A i, j \in 1..n : q[i] = q[j] => i = j},
                vs \in [1..n -> InitValues] } : n \in 0..MaxOld }

Document(photos) == JObj(<<Member("photos", photos)>>)

\* Valid JSON of another shape.
OddDocuments ==
    { JObj(<<>>), JObj(<<Member("version", JNum("1"))>>), JArr(<<>>), JNull, JStr("xy"),
      Document(JNull), Document(JNum("0")), Document(JStr("xy")), Document(JStr("za.jpg")),
      Document(JArr(<<JStr("a.jpg")>>)), Document(JArr(<<JStr(".jpg"), JStr(".jpg")>>)) }

\* A hand-written file: one line, a key written twice, a second top-level key.
CompactText ==
    << Tok("{"), TStr("photos"), Tok(":"), Tok("{"),
       TStr("a.jpg"), Tok(":"), TStr("legacy"), Tok(","),
       TStr(".jpg"), Tok(":"), TStr("legacy"), Tok(","),
       TStr("a.jpg"), Tok(":"), TStr("X"), Tok("}"), Tok(","),
       TStr("version"), Tok(":"), TNum("1"), Tok("}") >>

\* Text that is not JSON: an empty file, a truncated one, one with a stray brace.
Truncated == <<Tok("{"), TStr("photos"), Tok(":"), Tok("{")>>
GarbageTexts == { <<>>, Truncated, Serialize(DefaultDocument) \o <<Tok("}")>> }

InitTexts ==
    {Serialize(Document(p)) : p \in InitMappings}
    \cup {Serialize(d) : d \in OddDocuments}
    \cup {CompactText} \cup GarbageTexts

NoEntries == [n \in Names |-> "none"]

NoRun == RunResult(-1, "", <<>>, <<>>, JNull, JObj(<<>>), <<>>, <<>>, <<>>, Absent)

Forget ==
    /\ exitCode' = NoRun.exitCode
    /\ error' = NoRun.error
    /\ stdout' = NoRun.stdout
    /\ images' = NoRun.images
    /\ existing_photos' = NoRun.existing_photos
    /\ new_photos' = NoRun.new_photos
    /\ added' = NoRun.added
    /\ preserved' = NoRun.preserved
    /\ removed' = NoRun.removed
    /\ scanned' = NoEntries
    /\ loadedFrom' = Absent
    /\ rerun' = FALSE

Init ==
    /\ dirKind \in {"absent", "dir", "file"}
    /\ entries \in [Names -> {"none", "file"}]
    /\ metaFile \in {Absent} \cup {TextFile(t) : t \in InitTexts}
    /\ dirKind # "dir" => entries = NoEntries /\ metaFile = Absent
    /\ exitCode = NoRun.exitCode
    /\ error = NoRun.error
    /\ stdout = NoRun.stdout
    /\ images = NoRun.images
    /\ existing_photos = NoRun.existing_photos
    /\ new_photos = NoRun.new_photos
    /\ added = NoRun.added
    /\ preserved = NoRun.preserved
    /\ removed = NoRun.removed
    /\ scanned = NoEntries
    /\ loadedFrom = Absent
    /\ rerun = FALSE

(***************************************************************************)
(* One run of the script.                                                  *)
(***************************************************************************)
Leave(r) ==
    /\ metaFile' = r.file
    /\ exitCode' = r.exitCode
    /\ error' = r.error
    /\ stdout' = r.stdout
    /\ images' = r.images
    /\ existing_photos' = r.existing_photos
    /\ new_photos' = r.new_photos
    /\ added' = r.added
    /\ preserved' = r.preserved
    /\ removed' = r.removed

Main ==
    /\ Leave(main(dirKind, entries, metaFile))
    /\ scanned' = entries
    /\ loadedFrom' = metaFile
    /\ rerun' = (exitCode = 0)
    /\ UNCHANGED <<dirKind, entries>>

(***************************************************************************)
(* What happens to the folder between runs: photos come and go, the user   *)
(* fills in a description, the metadata file is damaged, protected or      *)
(* deleted.  The results of the last run are forgotten at each change.     *)
(***************************************************************************)
CreateEntry ==
    /\ dirKind = "dir"
    /\ \E n \in Names, k \in {"file", "dir"} :
          /\ entries[n] = "none"
          /\ entries' = [entries EXCEPT ![n] = k]
    /\ Forget
    /\ UNCHANGED <<dirKind, metaFile>>

DeleteEntry ==
    /\ dirKind = "dir"
    /\ \E n \in Names :
          /\ entries[n] # "none"
          /\ entries' = [entries EXCEPT ![n] = "none"]
    /\ Forget
    /\ UNCHANGED <<dirKind, metaFile>>

\* The document with the record of key k filled in by the user.
WithRecord(doc, k) ==
    DictSet(doc, "photos", DictSet(DictGet(doc, "photos"), k, Edited))

HasRecords(r) ==
    /\ r.ok /\ r.v.t = "obj" /\ HasKey(r.v, "photos")
    /\ DictGet(r.v, "photos").t = "obj"

EditIn(r) ==
    /\ HasRecords(r)
    /\ \E k \in KeySet(DictGet(r.v, "photos")) :
          metaFile' = [metaFile EXCEPT !.text = Serialize(WithRecord(r.v, k))]

EditRecord ==
    /\ metaFile.exists /\ metaFile.readable /\ metaFile.writable /\ metaFile.decodable
    /\ EditIn(JsonLoad(metaFile.text))
    /\ Forget
    /\ UNCHANGED <<dirKind, entries>>

CorruptMeta ==
    /\ metaFile.exists
    /\ \/ metaFile' = [metaFile EXCEPT !.text = Truncated, !.decodable = TRUE]
       \/ metaFile' = [metaFile EXCEPT !.text = <<>>, !.decodable = FALSE]
    /\ Forget
    /\ UNCHANGED <<dirKind, entries>>

Chmod ==
    /\ metaFile.exists
    /\ \E r, w \in BOOLEAN :
          metaFile' = [metaFile EXCEPT !.readable = r, !.writable = w]
    /\ Forget
    /\ UNCHANGED <<dirKind, entries>>

DeleteMeta ==
    /\ metaFile.exists
    /\ metaFile' = Absent
    /\ Forget
    /\ UNCHANGED <<dirKind, entries>>

Next ==
    \/ Main
    \/ CreateEntry
    \/ DeleteEntry
    \/ EditRecord
    \/ CorruptMeta
    \/ Chmod
    \/ DeleteMeta

Spec == Init /\ [][Next]_vars

(***************************************************************************)
(* Vocabulary of the properties.                                           *)
(***************************************************************************)
Ran == exitCode # -1
Completed == exitCode = 0
Warned == \E i \in 1..Len(stdout) : stdout[i].kind = "warning"

\* A name with a recognized extension: its lower-cased spelling ends in one
\* of the five extensions, after a stem that is not empty.
EndsWith(w, e) == Len(w) > Len(e) /\ SubSeq(w, Len(w) - Len(e) + 1, Len(w)) = e
HasImageExtension(n) == \E e \in IMAGE_EXTENSIONS : EndsWith(Lower(Spell(n)), e)

\* The entries of the directory, of any type, and those that are files.
Present == {n \in Names : entries[n] # "none"} \cup (IF metaFile.exists THEN {MetaName} ELSE {})
PresentFiles == {n \in Names : entries[n] = "file"} \cup (IF metaFile.exists THEN {MetaName} ELSE {})
ImageNames == {n \in Present : HasImageExtension(n)}

\* The `photos` mapping of the document now in the metadata file.
FileDocument == JsonLoad(metaFile.text)
FileHasPhotos ==
    /\ metaFile.exists /\ FileDocument.ok /\ FileDocument.v.t = "obj"
    /\ Keys(FileDocument.v) = <<"photos">>
    /\ DictGet(FileDocument.v, "photos").t = "obj"
FilePhotos == DictGet(FileDocument.v, "photos")

\* The keys of the old mapping: what iterating over it yields.
OldKeys ==
    CASE existing_photos.t = "obj" -> KeySet(existing_photos)
      [] existing_photos.t = "arr" -> {existing_photos.m[i].s : i \in 1..Len(existing_photos.m)}
      [] existing_photos.t = "str" -> Range(Spell(existing_photos.s))
      [] OTHER -> {}
OldIsMapping == existing_photos.t = "obj"

ThePlaceholder ==
    [t |-> "obj", s |-> "",
     m |-> << [k |-> "description", v |-> [t |-> "str", s |-> "Edit this description", m |-> <<>>]],
              [k |-> "date", v |-> [t |-> "str", s |-> "", m |-> <<>>]] >>]

\* What the last run found in the metadata file.
LoadedDocument == JsonLoad(loadedFrom.text)
FoundMissing == ~loadedFrom.exists
FoundUnreadable == loadedFrom.exists /\ ~loadedFrom.readable
FoundUndecodable == loadedFrom.exists /\ loadedFrom.readable /\ ~loadedFrom.decodable
FoundInvalidJson ==
    loadedFrom.exists /\ loadedFrom.readable /\ loadedFrom.decodable /\ ~LoadedDocument.ok
FoundParsed ==
    loadedFrom.exists /\ loadedFrom.readable /\ loadedFrom.decodable /\ LoadedDocument.ok

AllPlaceholders ==
    /\ FileHasPhotos
    /\ KeySet(FilePhotos) = Range(images)
    /\ \A n \in Range(images) : DictGet(FilePhotos, n) = ThePlaceholder

C2_Preservation ==
    Completed /\ OldIsMapping =>
        /\ FileHasPhotos
        /\ \A n \in KeySet(existing_photos) \cap ImageNames :
              HasKey(FilePhotos, n) /\ DictGet(FilePhotos, n) = DictGet(existing_photos, n)

C2_Witness ==
    /\ Completed /\ OldIsMapping /\ FileHasPhotos
    /\ \E n \in KeySet(existing_photos) \cap ImageNames :
          /\ DictGet(existing_photos, n) # ThePlaceholder
          /\ DictGet(FilePhotos, n) = DictGet(existing_photos, n)
    /\ KeySet(existing_photos) \ ImageNames # {}

(***************************************************************************)
(* C3  Placeholder correctness: after a completed run every current image  *)
(* that is no key of the old mapping has exactly the record                *)
(* {description: "Edit this description", date: ""} in the written file,   *)
(* and no key of the old mapping whose old value was something else has    *)
(* the placeholder.                                                        *)
(***************************************************************************)
C3_PlaceholderCorrectness ==
    Completed =>
        /\ FileHasPhotos
        /\ \A n \in ImageNames \ OldKeys :
              HasKey(FilePhotos, n) /\ DictGet(FilePhotos, n) = ThePlaceholder
        /\ OldIsMapping =>
              \A n \in KeySet(existing_photos) \cap KeySet(FilePhotos) :
                  DictGet(existing_photos, n) # ThePlaceholder
                      => DictGet(FilePhotos, n) # ThePlaceholder

C3_Witness ==
    /\ Completed /\ OldIsMapping /\ FileHasPhotos
    /\ \E n \in ImageNames \ OldKeys : DictGet(FilePhotos, n) = ThePlaceholder
    /\ \E n \in KeySet(existing_photos) \cap KeySet(FilePhotos) :
          DictGet(FilePhotos, n) # ThePlaceholder

(***************************************************************************)
(* C4  Idempotence, as claimed: a run that directly follows a completed    *)
(* run, with nothing changed in between, completes, leaves the text of the *)
(* metadata file as the first run wrote it, and classifies no filename as  *)
(* added and none as removed (every image is preserved).                   *)
(***************************************************************************)
C4_Idempotence_Claimed ==
    rerun =>
        /\ Completed
        /\ metaFile.text = loadedFrom.text
        /\ added = <<>> /\ removed = <<>> /\ preserved = images

(***************************************************************************)
(* C4  Idempotence, amended: such a second run completes, leaves the text  *)
(* of the metadata file as the first run wrote it and classifies no        *)
(* filename as removed; it classifies none as added (every image is        *)
(* preserved) provided it can read the file, and when it cannot (a file    *)
(* without read permission) it classifies every image as added again.      *)
(***************************************************************************)
C4_Idempotence ==
    rerun =>
        /\ Completed
        /\ metaFile.text = loadedFrom.text
        /\ removed = <<>>
        /\ loadedFrom.readable => added = <<>> /\ preserved = images
        /\ ~loadedFrom.readable => added = images /\ preserved = <<>>

C4_Witness ==
    /\ rerun /\ Completed /\ loadedFrom.readable
    /\ Len(images) > 1 /\ preserved = images
    /\ metaFile.text = loadedFrom.text
    /\ \E n \in Range(images) : DictGet(new_photos, n) # ThePlaceholder

(***************************************************************************)
(* C5  Fallback on corrupt input: a run that finds a metadata file it      *)
(* cannot read, or whose content is not valid JSON, completes, with the    *)
(* empty old mapping, and writes a placeholder for every image found and   *)
(* nothing else.                                                           *)
(***************************************************************************)
C5_FallbackOnCorruptInput ==
    Ran /\ dirKind = "dir" /\ (FoundUnreadable \/ FoundUndecodable \/ FoundInvalidJson) =>
        /\ Completed
        /\ existing_photos = JObj(<<>>)
        /\ AllPlaceholders

(***************************************************************************)
(* C6  Terminal outcomes: a run ends with exit code 1 exactly when the     *)
(* image directory does not exist, and then nothing is scanned, loaded or  *)
(* written; whenever the directory exists the run ends with exit code 0.   *)
(***************************************************************************)
C6_TerminalOutcomes ==
    Ran =>
        /\ exitCode = 1 <=> dirKind # "dir"
        /\ dirKind # "dir" => metaFile = loadedFrom /\ images = <<>> /\ ~Warned
        /\ dirKind = "dir" => exitCode = 0

(***************************************************************************)
(* C7  Directory Scanner membership: the scan returns exactly the entries  *)
(* that are files and carry a recognized extension, so a subdirectory is   *)
(* never returned and never becomes a key of `photos`.                     *)
(***************************************************************************)
C7_ScannerMembership ==
    Completed =>
        /\ Range(images) = {n \in PresentFiles : HasImageExtension(n)}
        /\ \A n \in Names : entries[n] = "dir" => ~HasKey(new_photos, n)

C9_MissingPhotosTolerance ==
    Ran /\ dirKind = "dir" /\ FoundParsed
        /\ ~(LoadedDocument.v.t = "obj" /\ HasKey(LoadedDocument.v, "photos")) =>
            /\ Completed
            /\ added = images /\ preserved = <<>> /\ removed = <<>>
            /\ AllPlaceholders

(***************************************************************************)
(* C10  Classification partition: after a completed run added, preserved   *)
(* and removed are pairwise disjoint, added and preserved together are the *)
(* current images, preserved is the old keys that are current images,      *)
(* removed is the old keys that are not, and the mapping written is, for   *)
(* each current image in sorted order, its old value if it had one and the *)
(* placeholder if not.                                                     *)
(***************************************************************************)
ExpectedMapping ==
    JObj([i \in 1..Len(images) |->
            Member(images[i],
                   IF OldIsMapping /\ HasKey(existing_photos, images[i])
                   THEN DictGet(existing_photos, images[i]) ELSE ThePlaceholder)])

C10_ClassificationPartition ==
    Completed =>
        /\ Range(added) \cap Range(preserved) = {}
        /\ Range(added) \cap Range(removed) = {}
        /\ Range(preserved) \cap Range(removed) = {}
        /\ Range(added) \cup Range(preserved) = ImageNames
        /\ Range(preserved) = OldKeys \cap ImageNames
        /\ Range(removed) = OldKeys \ ImageNames
        /\ FileHasPhotos /\ FilePhotos = ExpectedMapping

C10_Witness ==
    /\ Completed /\ added # <<>> /\ preserved # <<>> /\ removed # <<>>
    /\ FilePhotos = ExpectedMapping

====
